---------------------------- MODULE Spec2Model ----------------------------
(***************************************************************************)
(* A model of the DMAP codec of backscatter-rs (src/src/dmap.rs): the      *)
(* typed values, the scalar / array / record encoders, the cursor-driven   *)
(* recursive-descent parser and the stream functions read_records and      *)
(* to_file.                                                                *)
(*                                                                         *)
(* Bytes are the integers 0..255 and a buffer is a sequence of bytes.      *)
(* Positions are 0-based as in the source; buf[p + 1] is the byte at       *)
(* position p.  A Rust String is its sequence of UTF-8 bytes.  An integer  *)
(* payload is the mathematical integer; a FLOAT or DOUBLE payload is its   *)
(* IEEE-754 bit pattern read as a signed integer of the same width.  The   *)
(* target is little-endian (tests::int_to_bytes asserts it).               *)
(***************************************************************************)
EXTENDS Integers, Sequences, FiniteSets, TLC

VARIABLES
    pc,               \* where the file pipeline stands
    doc,              \* the wire documents the run is about (ghost)
    records,          \* the Vec<RawDmapRecord> handed to to_file
    stream,           \* the bytes of the file / the buffer of read_records
    cursor,           \* read_records: cursor.position()
    dmap_records,     \* read_records: the records parsed so far
    starts,           \* the position each parse_record call started at (ghost)
    result,           \* what read_records returned
    clean,            \* what read_records returned before the file was damaged (ghost)
    fault,            \* the damage done to the file (ghost)
    out,              \* the bytes to_file writes for the records read back
    base,             \* address of the buffer's first byte, modulo 8
    overflow_checks,  \* TRUE: a build that panics on integer overflow (debug)
    call,             \* unit level: the function called and its argument
    ret               \* unit level: what the call returned

vars == <<pc, doc, records, stream, cursor, dmap_records, starts, result,
          clean, fault, out, base, overflow_checks, call, ret>>

(***************************************************************************)
(* Bounds of the explored input space.                                     *)
(***************************************************************************)
MaxScalars == 2
MaxArrays == 1
MaxRecords == 2

(***************************************************************************)
(* Machine integers.                                                       *)
(***************************************************************************)
I32Max == 2147483647
I32Min == -I32Max - 1

\* a + b in i32 leaves the i32 range
AddOverflows(a, b) ==
    \/ a > 0 /\ b > 0 /\ a > I32Max - b
    \/ a < 0 /\ b < 0 /\ a < I32Min - b

\* a + b wrapped to i32 (two's complement), computed without leaving the range
WrapAdd(a, b) ==
    IF ~AddOverflows(a, b) THEN a + b
    ELSE IF a > 0 THEN ((a - I32Max) - 1) + ((b - I32Max) - 1)
    ELSE ((a + I32Max) + 1) + ((b + I32Max) + 1)

\* a * b in i32 leaves the i32 range (b >= 0)
MulOverflows(a, b) ==
    IF b = 0 \/ a = 0 THEN FALSE
    ELSE IF a > 0 THEN a > I32Max \div b
    ELSE a < ((I32Min + b) - 1) \div b

RECURSIVE WrapMul(_, _)
\* a * b wrapped to i32 (b >= 0), by doubling
WrapMul(a, b) ==
    IF b = 0 THEN 0
    ELSE LET h == WrapMul(a, b \div 2)
             d == WrapAdd(h, h)
         IN  IF b % 2 = 1 THEN WrapAdd(d, a) ELSE d

(***************************************************************************)
(* DmapType: the closed union of typed values (dmap.rs 34-49).             *)
(***************************************************************************)
\* STRING is TEXT here: STRING is a reserved word of TLA+
DMAP == [type |-> "DMAP", num |-> 0, str |-> <<>>]
CHAR(x) == [type |-> "CHAR", num |-> x, str |-> <<>>]
SHORT(x) == [type |-> "SHORT", num |-> x, str |-> <<>>]
INT(x) == [type |-> "INT", num |-> x, str |-> <<>>]
FLOAT(x) == [type |-> "FLOAT", num |-> x, str |-> <<>>]
DOUBLE(x) == [type |-> "DOUBLE", num |-> x, str |-> <<>>]
TEXT(s) == [type |-> "STRING", num |-> 0, str |-> s]
LONG(x) == [type |-> "LONG", num |-> x, str |-> <<>>]
UCHAR(x) == [type |-> "UCHAR", num |-> x, str |-> <<>>]
USHORT(x) == [type |-> "USHORT", num |-> x, str |-> <<>>]
UINT(x) == [type |-> "UINT", num |-> x, str |-> <<>>]
ULONG(x) == [type |-> "ULONG", num |-> x, str |-> <<>>]

all_keys == <<0, 1, 2, 3, 4, 8, 9, 10, 16, 17, 18, 19>>

KeySet == {all_keys[i] : i \in 1..Len(all_keys)}

get_num_bytes(v) ==
    CASE v.type \in {"CHAR", "UCHAR"} -> 1
      [] v.type \in {"SHORT", "USHORT"} -> 2
      [] v.type \in {"INT", "UINT", "FLOAT"} -> 4
      [] v.type \in {"DOUBLE", "LONG", "ULONG"} -> 8
      [] OTHER -> 0

\* DmapError (dmap.rs 13-19): val carries the offending tag of a BadVal
Message(m) == [kind |-> "Message", msg |-> m, val |-> <<>>]
BadVal(m, v) == [kind |-> "BadVal", msg |-> m, val |-> <<v>>]
CastError(m) == [kind |-> "CastError", msg |-> m, val |-> <<>>]
NoError == [kind |-> "", msg |-> "", val |-> <<>>]

\* Result<T>, and a panic of the thread
Ok(v, p) == [kind |-> "Ok", val |-> <<v>>, pos |-> p, err |-> NoError]
Err(e) == [kind |-> "Err", val |-> <<>>, pos |-> 0, err |-> e]
Panic(m) == [kind |-> "Panic", val |-> <<>>, pos |-> 0, err |-> Message(m)]

MsgInvalidKey == "Invalid key for DMAP type: "

get_type_from_key(key) ==
    CASE key = 0 -> Ok(DMAP, 0)
      [] key = 1 -> Ok(CHAR(0), 0)
      [] key = 2 -> Ok(SHORT(0), 0)
      [] key = 3 -> Ok(INT(0), 0)
      [] key = 4 -> Ok(FLOAT(0), 0)
      [] key = 8 -> Ok(DOUBLE(0), 0)
      [] key = 9 -> Ok(TEXT(<<>>), 0)
      [] key = 10 -> Ok(LONG(0), 0)
      [] key = 16 -> Ok(UCHAR(0), 0)
      [] key = 17 -> Ok(USHORT(0), 0)
      [] key = 18 -> Ok(UINT(0), 0)
      [] key = 19 -> Ok(ULONG(0), 0)
      [] OTHER -> Err(Message(MsgInvalidKey \o ToString(key)))

get_key(v) ==
    CASE v.type = "DMAP" -> 0
      [] v.type = "CHAR" -> 1
      [] v.type = "SHORT" -> 2
      [] v.type = "INT" -> 3
      [] v.type = "FLOAT" -> 4
      [] v.type = "DOUBLE" -> 8
      [] v.type = "STRING" -> 9
      [] v.type = "LONG" -> 10
      [] v.type = "UCHAR" -> 16
      [] v.type = "USHORT" -> 17
      [] v.type = "UINT" -> 18
      [] v.type = "ULONG" -> 19

RECURSIVE bytes_of_big_endian(_, _)
bytes_of_big_endian(x, n) ==
    IF n = 0 THEN <<>> ELSE bytes_of_big_endian(x \div 256, n - 1) \o <<x % 256>>

RECURSIVE bytes_of(_, _)
\* bytemuck::bytes_of on a little-endian target: the n bytes of x in two's
\* complement, least significant first
bytes_of(x, n) ==
    IF n = 0 THEN <<>> ELSE <<x % 256>> \o bytes_of(x \div 256, n - 1)

DmapType_to_bytes(v) ==
    CASE v.type = "DMAP" -> <<>>
      [] v.type = "STRING" -> v.str \o <<0>>
      [] OTHER -> bytes_of(v.num, get_num_bytes(v))

\* PartialEq of f32 / f64 on bit patterns: NaN differs from everything, the
\* two zeros are equal.  A FLOAT is NaN when its 31 low bits exceed the bits
\* of infinity; for the DOUBLE patterns within (-2^52, 2^31) exactly the
\* negative ones are NaN (sign and exponent all ones, mantissa not zero).
FloatInfBits == 2139095040
FloatIsNaN(b) == (IF b < 0 THEN (b + I32Max) + 1 ELSE b) > FloatInfBits
FloatIsZero(b) == b = 0 \/ b = I32Min
DoubleIsNaN(b) == b < 0

\* derived PartialEq for DmapType (dmap.rs 34)
DmapTypeEq(a, b) ==
    /\ a.type = b.type
    /\ CASE a.type = "FLOAT" ->
              /\ ~FloatIsNaN(a.num) /\ ~FloatIsNaN(b.num)
              /\ (a.num = b.num \/ (FloatIsZero(a.num) /\ FloatIsZero(b.num)))
         [] a.type = "DOUBLE" ->
              /\ ~DoubleIsNaN(a.num) /\ ~DoubleIsNaN(b.num)
              /\ a.num = b.num
         [] OTHER -> a.num = b.num /\ a.str = b.str

(***************************************************************************)
(* RawDmapScalar, RawDmapArray, RawDmapRecord (dmap.rs 156-243).  A HashMap *)
(* is a function on its set of keys; Option<T> is a sequence of length 0   *)
(* or 1.                                                                   *)
(***************************************************************************)
RawDmapScalar(d) == [data |-> d, mode |-> 6]
RawDmapArray(dims, d) == [mode |-> 7, dimensions |-> dims, data |-> d]

EmptyMap == [k \in {} |-> 0]
insert(m, k, v) == [x \in DOMAIN m \cup {k} |-> IF x = k THEN v ELSE m[x]]
get(m, k) == IF k \in DOMAIN m THEN <<m[k]>> ELSE <<>>

Min(a, b) == IF a < b THEN a ELSE b

RawDmapScalar_to_bytes(s) ==
    DmapType_to_bytes(CHAR(get_key(s.data))) \o DmapType_to_bytes(s.data)

RECURSIVE concat_bytes(_)
\* the for loops of the encoders: every element's to_bytes appended in order
concat_bytes(vals) ==
    IF vals = <<>> THEN <<>>
    ELSE DmapType_to_bytes(Head(vals)) \o concat_bytes(Tail(vals))

RawDmapArray_to_bytes_wrong(a) ==
    IF a.data = <<>> THEN <<-1>>
    ELSE DmapType_to_bytes(CHAR(get_key(a.data[Len(a.data)])))
             \o DmapType_to_bytes(INT(Len(a.data)))
             \o concat_bytes([i \in 1..Len(a.dimensions) |-> INT(a.dimensions[i])])
             \o concat_bytes(a.data)

\* RawDmapArray::to_bytes (dmap.rs 194-205); <<-1>> marks the panic of
\* data[0] on an array without elements
RawDmapArray_to_bytes(a) ==
    IF a.data = <<>> THEN <<-1>>
    ELSE DmapType_to_bytes(CHAR(get_key(a.data[1])))
             \o DmapType_to_bytes(INT(Len(a.dimensions)))
             \o concat_bytes([i \in 1..Len(a.dimensions) |-> INT(a.dimensions[i])])
             \o concat_bytes(a.data)

\* PartialEq for RawDmapScalar (derived) and RawDmapArray (zip: common prefix)
RawDmapScalarEq(a, b) == DmapTypeEq(a.data, b.data) /\ a.mode = b.mode

RawDmapArrayEq(a, b) ==
    /\ a.mode = b.mode
    /\ \A i \in 1..Min(Len(a.dimensions), Len(b.dimensions)) :
           a.dimensions[i] = b.dimensions[i]
    /\ \A i \in 1..Min(Len(a.data), Len(b.data)) : DmapTypeEq(a.data[i], b.data[i])

\* Option<&T> == Option<&T>
OptionEq(x, y, Eq(_, _)) ==
    /\ Len(x) = Len(y)
    /\ (Len(x) = 1 => Eq(x[1], y[1]))

RawDmapRecordEq_counts_ignored(a, b) ==
    /\ \A i \in 1..Min(Len(a.scalar_list), Len(b.scalar_list)) :
           /\ a.scalar_list[i] = b.scalar_list[i]
           /\ OptionEq(get(a.scalars, a.scalar_list[i]),
                       get(b.scalars, b.scalar_list[i]), RawDmapScalarEq)
    /\ \A i \in 1..Min(Len(a.array_list), Len(b.array_list)) :
           /\ a.array_list[i] = b.array_list[i]
           /\ OptionEq(get(a.arrays, a.array_list[i]),
                       get(b.arrays, b.array_list[i]), RawDmapArrayEq)

\* PartialEq for RawDmapRecord (dmap.rs 224-243)
RawDmapRecordEq(a, b) ==
    /\ a.num_scalars = b.num_scalars /\ a.num_arrays = b.num_arrays
    /\ \A i \in 1..Min(Len(a.scalar_list), Len(b.scalar_list)) :
           /\ a.scalar_list[i] = b.scalar_list[i]
           /\ OptionEq(get(a.scalars, a.scalar_list[i]),
                       get(b.scalars, b.scalar_list[i]), RawDmapScalarEq)
    /\ \A i \in 1..Min(Len(a.array_list), Len(b.array_list)) :
           /\ a.array_list[i] = b.array_list[i]
           /\ OptionEq(get(a.arrays, a.array_list[i]),
                       get(b.arrays, b.array_list[i]), RawDmapArrayEq)

code == 65537

RECURSIVE scalar_bytes_skipping(_, _)
scalar_bytes_skipping(rec, names) ==
    IF names = <<>> THEN <<>>
    ELSE IF Head(names) \notin DOMAIN rec.scalars
         THEN scalar_bytes_skipping(rec, Tail(names))
    ELSE Head(names) \o <<0>> \o RawDmapScalar_to_bytes(rec.scalars[Head(names)])
             \o scalar_bytes_skipping(rec, Tail(names))

RECURSIVE scalar_bytes(_, _)
\* dmap.rs 252-258; <<-1>> marks the panic of expect() on a missing name
scalar_bytes(rec, names) ==
    IF names = <<>> THEN <<>>
    ELSE IF Head(names) \notin DOMAIN rec.scalars THEN <<-1>>
    ELSE LET rest == scalar_bytes(rec, Tail(names))
         IN  IF rest = <<-1>> THEN rest
             ELSE Head(names) \o <<0>>
                      \o RawDmapScalar_to_bytes(rec.scalars[Head(names)]) \o rest

RECURSIVE array_bytes(_, _)
\* dmap.rs 259-265; <<-1>> marks a panic: expect() on a missing name, or
\* data[0] of an array without elements (dmap.rs 196)
array_bytes(rec, names) ==
    IF names = <<>> THEN <<>>
    ELSE IF Head(names) \notin DOMAIN rec.arrays THEN <<-1>>
    ELSE LET b == RawDmapArray_to_bytes(rec.arrays[Head(names)])
             rest == array_bytes(rec, Tail(names))
         IN  IF b = <<-1>> \/ rest = <<-1>> THEN <<-1>>
             ELSE Head(names) \o <<0>> \o b \o rest

RawDmapRecord_to_bytes_wrong(rec) ==
    LET sb == scalar_bytes(rec, rec.scalar_list)
        ab == array_bytes(rec, rec.array_list)
        data_bytes == sb \o ab
    IN  IF sb = <<-1>> \/ ab = <<-1>> THEN <<-1>>
        ELSE DmapType_to_bytes(INT(code))
                 \o DmapType_to_bytes(INT(Len(data_bytes)))
                 \o DmapType_to_bytes(INT(rec.num_scalars))
                 \o DmapType_to_bytes(INT(rec.num_arrays))
                 \o data_bytes

\* RawDmapRecord::to_bytes (dmap.rs 247-273); <<-1>> when it panics
RawDmapRecord_to_bytes(rec) ==
    LET sb == scalar_bytes(rec, rec.scalar_list)
        ab == array_bytes(rec, rec.array_list)
        data_bytes == sb \o ab
    IN  IF sb = <<-1>> \/ ab = <<-1>> THEN <<-1>>
        ELSE DmapType_to_bytes(INT(code))
                 \o DmapType_to_bytes(INT(Len(data_bytes) + 16))
                 \o DmapType_to_bytes(INT(rec.num_scalars))
                 \o DmapType_to_bytes(INT(rec.num_arrays))
                 \o data_bytes

RECURSIVE to_file(_)
\* to_file (dmap.rs 612-620): the records' bytes appended in order; <<-1>>
\* when a to_bytes panics
to_file(recs) ==
    IF recs = <<>> THEN <<>>
    ELSE LET b == RawDmapRecord_to_bytes(Head(recs))
             rest == to_file(Tail(recs))
         IN  IF b = <<-1>> \/ rest = <<-1>> THEN <<-1>> ELSE b \o rest

(***************************************************************************)
(* The parser (dmap.rs 277-586).  The cursor is the pair (buf, position);  *)
(* every function returns Ok(value, new position), Err(error) or Panic.    *)
(***************************************************************************)
MsgCursorOut == "READ DATA: Cursor extends out of buffer. Data is likely corrupted"
MsgNotAligned == "READ DATA: Byte offsets into buffer are not properly aligned. Data is likely corrupted"
MsgUnterminated == "READ DATA: String is improperly terminated. Dmap record is corrupted"
MsgBadString == "READ DATA: Unable to interpret string"
MsgSizeExceeds == "PARSE RECORD: Integrity check shows record size bigger than remaining buffer. Data is likely corrupted"
MsgSizeNonPositive == "PARSE RECORD: Integrity check shows record size <= 0. Data is likely corrupted"
MsgScalarCount == "PARSE RECORD: Number of scalers is 0 or negative."
MsgArrayCount == "PARSE RECORD: Number of arrays is 0 or negative."
MsgElementCount == "PARSE RECORD: Invalid number of record elements. Array or scaler field is likely corrupted."
MsgSizeMismatch(read, size) ==
    "PARSE RECORD: Bytes read " \o ToString(read)
        \o " does not match the records size field " \o ToString(size)
MsgScalarType == "PARSE SCALAR: Data type is corrupted. Record is likely corrupted"
MsgArrayType == "PARSE ARRAY: Data type is corrupted. Record is likely corrupted"
MsgDimCountBig == "PARSE ARRAY: Parsed # of array dimensions are larger than record size. Record is likely corrupted"
MsgDimCountNonPositive == "PARSE ARRAY: Parsed # of array dimensions are zero or negative. Record is likely corrupted"
MsgDimNonPositive == "PARSE ARRAY: Array dimension is zero or negative. Record is likely corrupted"
MsgDimBig == "PARSE ARRAY: Array dimension exceeds record size"
MsgTotalBig == "PARSE ARRAY: Total array elements > record size."
MsgArraySizeBig == "PARSE ARRAY: Array size exceeds record size. Data is likely corrupted"
PanicIndex == "index out of bounds"
PanicAdd == "attempt to add with overflow"
PanicMul == "attempt to multiply with overflow"
PanicMissing == "missing from record"

RECURSIVE from_le(_)
\* the unsigned value of little-endian bytes
from_le(data) ==
    IF data = <<>> THEN 0 ELSE Head(data) + 256 * from_le(Tail(data))

RECURSIVE from_le_signed(_)
\* the two's complement value of little-endian bytes (at least one)
from_le_signed(data) ==
    IF Len(data) = 1 THEN (IF data[1] >= 128 THEN data[1] - 256 ELSE data[1])
    ELSE Head(data) + 256 * from_le_signed(Tail(data))

\* bytemuck::try_from_bytes::<T> needs the slice aligned for T;
\* try_pod_read_unaligned does not
aligned(position, align) == (base + position) % align = 0

IsCont(b) == b \in 128..191

RECURSIVE from_utf8_ok(_)
\* String::from_utf8 accepts exactly the well-formed UTF-8 sequences
from_utf8_ok(s) ==
    IF s = <<>> THEN TRUE
    ELSE LET b == s[1]
             n == Len(s)
         IN  IF b < 128 THEN from_utf8_ok(Tail(s))
             ELSE IF b \in 194..223
                  THEN n >= 2 /\ IsCont(s[2]) /\ from_utf8_ok(SubSeq(s, 3, n))
             ELSE IF b \in 224..239
                  THEN /\ n >= 3
                       /\ s[2] \in (IF b = 224 THEN 160..191
                                    ELSE IF b = 237 THEN 128..159 ELSE 128..191)
                       /\ IsCont(s[3])
                       /\ from_utf8_ok(SubSeq(s, 4, n))
             ELSE IF b \in 240..244
                  THEN /\ n >= 4
                       /\ s[2] \in (IF b = 240 THEN 144..191
                                    ELSE IF b = 244 THEN 128..143 ELSE 128..191)
                       /\ IsCont(s[3]) /\ IsCont(s[4])
                       /\ from_utf8_ok(SubSeq(s, 5, n))
             ELSE FALSE

RECURSIVE scan_string(_, _, _)
\* the while loop of dmap.rs 565-574: the number of bytes before the 0x00,
\* -1 for the unterminated-string error, -2 for the panic of indexing the
\* buffer at its length
scan_string(buf, position, byte_counter) ==
    IF position + byte_counter >= Len(buf) THEN -2
    ELSE IF buf[position + byte_counter + 1] = 0 THEN byte_counter
    ELSE IF position + byte_counter + 1 >= Len(buf) THEN -1
    ELSE scan_string(buf, position, byte_counter + 1)

(***************************************************************************)
(* Each function below is cut where the source binds a value with `?`: the *)
(* operator named f_x continues f once x has been read, and an Err or a    *)
(* Panic of x is what f returns.                                           *)
(***************************************************************************)
RECURSIVE parse_record(_, _)
RECURSIVE parse_record_size(_, _, _)
RECURSIVE parse_record_num_scalars(_, _, _)
RECURSIVE parse_record_num_arrays(_, _, _, _)
RECURSIVE parse_record_scalars(_, _, _, _, _)
RECURSIVE parse_record_arrays(_, _, _, _, _, _)
RECURSIVE parse_scalar(_, _)
RECURSIVE parse_scalar_key(_, _)
RECURSIVE parse_scalar_data(_, _, _)
RECURSIVE parse_array(_, _, _)
RECURSIVE parse_array_key(_, _, _)
RECURSIVE parse_array_dimension(_, _, _, _)
RECURSIVE parse_array_dimensions(_, _, _, _, _)
RECURSIVE parse_array_data(_, _, _, _, _)
RECURSIVE read_data(_, _, _)
RECURSIVE parse_scalars(_, _, _, _, _)
RECURSIVE parse_scalars_push(_, _, _, _, _)
RECURSIVE parse_arrays(_, _, _, _, _, _)
RECURSIVE parse_arrays_push(_, _, _, _, _, _)
RECURSIVE parse_dimensions(_, _, _, _, _, _)
RECURSIVE parse_dimensions_push(_, _, _, _, _, _)
RECURSIVE parse_elements(_, _, _, _, _)
RECURSIVE parse_elements_push(_, _, _, _, _)

\* the STRING arm of read_data (dmap.rs 563-581), byte_counter from scan_string
read_string(buf, position, byte_counter) ==
    IF byte_counter = -2 THEN Panic(PanicIndex)
    ELSE IF byte_counter = -1 THEN Err(Message(MsgUnterminated))
    ELSE IF ~from_utf8_ok(SubSeq(buf, position + 1, position + byte_counter))
         THEN Err(Message(MsgBadString))
    ELSE Ok(TEXT(SubSeq(buf, position + 1, position + byte_counter)),
            position + byte_counter + 1)

\* the fixed-width arms of read_data (dmap.rs 517-562) on the window data
read_number(t, data, position) ==
    CASE t = "UCHAR" -> Ok(UCHAR(data[1]), position + 1)
      [] t = "CHAR" -> Ok(CHAR(from_le_signed(data)), position + 1)
      [] t = "SHORT" -> Ok(SHORT(from_le_signed(data)), position + 2)
      [] t = "USHORT" ->
           IF aligned(position, 2) THEN Ok(USHORT(from_le(data)), position + 2)
           ELSE Err(CastError("READ DATA: Unable to interpret ushort"))
      [] t = "INT" -> Ok(INT(from_le_signed(data)), position + 4)
      [] t = "UINT" ->
           IF aligned(position, 4) THEN Ok(UINT(from_le(data)), position + 4)
           ELSE Err(Message("READ DATA: Unable to interpret uint"))
      [] t = "LONG" ->
           IF aligned(position, 8) THEN Ok(LONG(from_le_signed(data)), position + 8)
           ELSE Err(Message("READ DATA: Unable to interpret long"))
      [] t = "ULONG" ->
           IF aligned(position, 8) THEN Ok(ULONG(from_le(data)), position + 8)
           ELSE Err(Message("READ DATA: Unable to interpret ulong"))
      [] t = "FLOAT" -> Ok(FLOAT(from_le_signed(data)), position + 4)
      [] t = "DOUBLE" -> Ok(DOUBLE(from_le_signed(data)), position + 8)

\* the DMAP arm of read_data (dmap.rs 516, 583): the sub-record r is parsed
\* and dropped, then set_position(position + data_size) with data_size = 0
read_nested(r, position) ==
    IF r.kind = "Ok" THEN Ok(DMAP, position + 0) ELSE r

\* read_data (dmap.rs 496-586)
read_data(buf, position, data_type) ==
    IF position > Len(buf) THEN Err(Message(MsgCursorOut))
    ELSE IF Len(buf) - position < get_num_bytes(data_type)
         THEN Err(Message(MsgNotAligned))
    ELSE IF data_type.type = "DMAP"
         THEN read_nested(parse_record(buf, position), position)
    ELSE IF data_type.type = "STRING"
         THEN read_string(buf, position, scan_string(buf, position, 0))
    ELSE read_number(data_type.type,
                     SubSeq(buf, position + 1, position + get_num_bytes(data_type)),
                     position)

\* parse_scalar (dmap.rs 395-399): the sub-record r of a DMAP scalar is
\* dropped, the cursor stays behind it
scalar_nested(name, r) ==
    IF r.kind # "Ok" THEN r ELSE Ok(<<name, RawDmapScalar(DMAP)>>, r.pos)

\* parse_scalar (dmap.rs 400-403)
scalar_value(name, data) ==
    IF data.kind # "Ok" THEN data
    ELSE Ok(<<name, RawDmapScalar(data.val[1])>>, data.pos)

\* parse_scalar (dmap.rs 369-404)
parse_scalar(buf, position) ==
    parse_scalar_key(buf, read_data(buf, position, TEXT(<<>>)))

parse_scalar_key(buf, name) ==
    IF name.kind # "Ok" THEN name
    ELSE parse_scalar_data(buf, name.val[1].str, read_data(buf, name.pos, CHAR(0)))

parse_scalar_data(buf, name, key) ==
    IF key.kind # "Ok" THEN key
    ELSE IF key.val[1].num \notin KeySet
         THEN Err(BadVal(MsgScalarType, CHAR(key.val[1].num)))
    ELSE IF get_type_from_key(key.val[1].num).kind # "Ok"
         THEN get_type_from_key(key.val[1].num)
    ELSE IF get_type_from_key(key.val[1].num).val[1].type = "DMAP"
         THEN scalar_nested(name, parse_record(buf, key.pos))
    ELSE scalar_value(name, read_data(buf, key.pos,
                                      get_type_from_key(key.val[1].num).val[1]))

\* the element loop of parse_array (dmap.rs 488-491)
parse_elements(buf, position, n, data_type, data) ==
    IF n <= 0 THEN Ok(data, position)
    ELSE parse_elements_push(buf, n, data_type, data, read_data(buf, position, data_type))

parse_elements_push(buf, n, data_type, data, e) ==
    IF e.kind # "Ok" THEN e
    ELSE parse_elements(buf, e.pos, n - 1, data_type, Append(data, e.val[1]))

\* the dimension loop of parse_array (dmap.rs 453-475):
\* Ok(<<dimensions, total_elements>>)
parse_dimensions(buf, position, n, dimensions, total_elements, record_size) ==
    IF n = 0 THEN Ok(<<dimensions, total_elements>>, position)
    ELSE parse_dimensions_push(buf, n, dimensions, total_elements, record_size,
                               read_data(buf, position, INT(0)))

parse_dimensions_push(buf, n, dimensions, total_elements, record_size, dim) ==
    IF dim.kind # "Ok" THEN dim
    ELSE IF dim.val[1].num <= 0 THEN Err(Message(MsgDimNonPositive))
    ELSE IF dim.val[1].num > record_size THEN Err(Message(MsgDimBig))
    ELSE IF overflow_checks /\ MulOverflows(total_elements, dim.val[1].num)
         THEN Panic(PanicMul)
    \* total_elements = total_elements * dim takes its value here
    ELSE CHOOSE r \in {parse_dimensions(buf, dim.pos, n - 1,
                                         Append(dimensions, dim.val[1].num),
                                         t, record_size) :
                            t \in {WrapMul(total_elements, dim.val[1].num)}} : TRUE

\* parse_array (dmap.rs 488-492)
array_value(name, dimensions, data) ==
    IF data.kind # "Ok" THEN data
    ELSE Ok(<<name, RawDmapArray(dimensions, data.val[1])>>, data.pos)

\* parse_array (dmap.rs 407-493)
parse_array(buf, position, record_size) ==
    parse_array_key(buf, record_size, read_data(buf, position, TEXT(<<>>)))

parse_array_key(buf, record_size, name) ==
    IF name.kind # "Ok" THEN name
    ELSE parse_array_dimension(buf, record_size, name.val[1].str,
                               read_data(buf, name.pos, CHAR(0)))

parse_array_dimension(buf, record_size, name, key) ==
    IF key.kind # "Ok" THEN key
    ELSE IF key.val[1].num \notin KeySet THEN Err(Message(MsgArrayType))
    ELSE IF get_type_from_key(key.val[1].num).kind # "Ok"
         THEN get_type_from_key(key.val[1].num)
    ELSE parse_array_dimensions(buf, record_size, name,
                                get_type_from_key(key.val[1].num).val[1],
                                read_data(buf, key.pos, INT(0)))

parse_array_dimensions(buf, record_size, name, data_type, array_dimension) ==
    IF array_dimension.kind # "Ok" THEN array_dimension
    ELSE IF array_dimension.val[1].num > record_size THEN Err(Message(MsgDimCountBig))
    ELSE IF array_dimension.val[1].num <= 0 THEN Err(Message(MsgDimCountNonPositive))
    ELSE parse_array_data(buf, record_size, name, data_type,
                          parse_dimensions(buf, array_dimension.pos,
                                           array_dimension.val[1].num, <<>>, 1,
                                           record_size))

\* dims is Ok(<<dimensions, total_elements>>)
parse_array_data(buf, record_size, name, data_type, dims) ==
    IF dims.kind # "Ok" THEN dims
    ELSE IF dims.val[1][2] > record_size THEN Err(Message(MsgTotalBig))
    ELSE IF overflow_checks /\ MulOverflows(dims.val[1][2], get_num_bytes(data_type))
         THEN Panic(PanicMul)
    ELSE IF WrapMul(dims.val[1][2], get_num_bytes(data_type)) > record_size
         THEN Err(Message(MsgArraySizeBig))
    ELSE array_value(name, dims.val[1][1],
                     parse_elements(buf, dims.pos, dims.val[1][2], data_type, <<>>))

\* the scalar loop of parse_record (dmap.rs 334-340): Ok(<<scalar_list, scalars>>)
parse_scalars(buf, position, n, scalar_list, scalars) ==
    IF n = 0 THEN Ok(<<scalar_list, scalars>>, position)
    ELSE parse_scalars_push(buf, n, scalar_list, scalars, parse_scalar(buf, position))

parse_scalars_push(buf, n, scalar_list, scalars, r) ==
    IF r.kind # "Ok" THEN r
    ELSE parse_scalars(buf, r.pos, n - 1, Append(scalar_list, r.val[1][1]),
                       insert(scalars, r.val[1][1], r.val[1][2]))

\* the array loop of parse_record (dmap.rs 342-348): Ok(<<array_list, arrays>>)
parse_arrays(buf, position, n, array_list, arrays, size) ==
    IF n = 0 THEN Ok(<<array_list, arrays>>, position)
    ELSE parse_arrays_push(buf, n, array_list, arrays, size,
                           parse_array(buf, position, size))

parse_arrays_push(buf, n, array_list, arrays, size, r) ==
    IF r.kind # "Ok" THEN r
    ELSE parse_arrays(buf, r.pos, n - 1, Append(array_list, r.val[1][1]),
                      insert(arrays, r.val[1][1], r.val[1][2]), size)

as_u64_gt_unchecked(size, rhs) == FALSE

\* size as u64 > rhs: a negative i32 converts to a u64 of at least 2^63
as_u64_gt(size, rhs) == size < 0 \/ size > rhs

record_value_unchecked(bytes_already_read, size, num_scalars, num_arrays, sc, ar) ==
    IF ar.kind # "Ok" THEN ar
    ELSE Ok([num_scalars |-> num_scalars,
             scalars |-> sc.val[1][2],
             num_arrays |-> num_arrays,
             arrays |-> ar.val[1][2],
             scalar_list |-> sc.val[1][1],
             array_list |-> ar.val[1][1]], ar.pos)

\* parse_record (dmap.rs 350-365): sc and ar are the Ok values of the loops
record_value(bytes_already_read, size, num_scalars, num_arrays, sc, ar) ==
    IF ar.kind # "Ok" THEN ar
    ELSE IF ar.pos - bytes_already_read # size
         THEN Err(Message(MsgSizeMismatch(ar.pos - bytes_already_read, size)))
    ELSE Ok([num_scalars |-> num_scalars,
             scalars |-> sc.val[1][2],
             num_arrays |-> num_arrays,
             arrays |-> ar.val[1][2],
             scalar_list |-> sc.val[1][1],
             array_list |-> ar.val[1][1]], ar.pos)

\* parse_record (dmap.rs 277-366)
parse_record(buf, bytes_already_read) ==
    parse_record_size(buf, bytes_already_read,
                      read_data(buf, bytes_already_read, INT(0)))

parse_record_size(buf, bytes_already_read, c) ==
    IF c.kind # "Ok" THEN c
    ELSE parse_record_num_scalars(buf, bytes_already_read,
                                  read_data(buf, c.pos, INT(0)))

parse_record_num_scalars(buf, bytes_already_read, size) ==
    IF size.kind # "Ok" THEN size
    ELSE IF as_u64_gt(size.val[1].num,
                      (Len(buf) - size.pos) + 2 * get_num_bytes(INT(0)))
         THEN Err(Message(MsgSizeExceeds))
    ELSE IF size.val[1].num <= 0 THEN Err(Message(MsgSizeNonPositive))
    ELSE parse_record_num_arrays(buf, bytes_already_read, size.val[1].num,
                                 read_data(buf, size.pos, INT(0)))

parse_record_num_arrays(buf, bytes_already_read, size, num_scalars) ==
    IF num_scalars.kind # "Ok" THEN num_scalars
    ELSE parse_record_scalars(buf, bytes_already_read, size, num_scalars.val[1].num,
                              read_data(buf, num_scalars.pos, INT(0)))

parse_record_scalars(buf, bytes_already_read, size, num_scalars, num_arrays) ==
    IF num_arrays.kind # "Ok" THEN num_arrays
    ELSE IF num_scalars <= 0 THEN Err(Message(MsgScalarCount))
    ELSE IF num_arrays.val[1].num <= 0 THEN Err(Message(MsgArrayCount))
    ELSE IF overflow_checks /\ AddOverflows(num_scalars, num_arrays.val[1].num)
         THEN Panic(PanicAdd)
    ELSE IF WrapAdd(num_scalars, num_arrays.val[1].num) > size
         THEN Err(Message(MsgElementCount))
    ELSE parse_record_arrays(buf, bytes_already_read, size, num_scalars,
                             num_arrays.val[1].num,
                             parse_scalars(buf, num_arrays.pos, num_scalars,
                                           <<>>, EmptyMap))

parse_record_arrays(buf, bytes_already_read, size, num_scalars, num_arrays, sc) ==
    IF sc.kind # "Ok" THEN sc
    ELSE record_value(bytes_already_read, size, num_scalars, num_arrays, sc,
                      parse_arrays(buf, sc.pos, num_arrays, <<>>, EmptyMap, size))

(***************************************************************************)
(* The inputs.  A wire document lists the entries of one record in wire    *)
(* order, as a producer has them before it fills a RawDmapRecord (as       *)
(* tests::record_to_bytes does) or as another DMAP writer lays them out.   *)
(***************************************************************************)
NameScal == <<115, 99, 97, 108>>
NameArr == <<97, 114, 114>>
NameAb == <<97, 98>>
NameN == <<110>>
NameT == <<116>>
NameM == <<109>>
NameZ == <<122>>
TextTest == <<84, 101, 115, 116>>
FloatNaN == 2143289344

ScalarEntry(n, d) == [name |-> n, data |-> d]
ArrayEntry(n, dims, d) == [name |-> n, dimensions |-> dims, data |-> d]
WireDoc(sc, ar) == [scalars |-> sc, arrays |-> ar]

\* the entries a document draws from, in the order it keeps them
ScalarPool ==
    << ScalarEntry(NameScal, CHAR(10)),
       ScalarEntry(NameScal, INT(-2)),
       ScalarEntry(NameAb, UINT(7)),
       ScalarEntry(NameT, TEXT(TextTest)),
       ScalarEntry(NameN, DMAP) >>

ArrayPool ==
    << ArrayEntry(NameArr, <<3>>, <<CHAR(0), CHAR(1), CHAR(2)>>),
       ArrayEntry(NameM, <<1, 2>>, <<FLOAT(0), FLOAT(FloatNaN)>>),
       ArrayEntry(NameZ, <<1>>, <<DMAP>>) >>

RECURSIVE pick(_, _, _)
\* the entries of pool whose index is in I, in pool order
pick(pool, I, i) ==
    IF i > Len(pool) THEN <<>>
    ELSE (IF i \in I THEN <<pool[i]>> ELSE <<>>) \o pick(pool, I, i + 1)

SeqsUpTo(S, n) == UNION {[1..k -> S] : k \in 0..n}
Picks(pool, n) == {pick(pool, I, 1) : I \in {J \in SUBSET (1..Len(pool)) : Cardinality(J) <= n}}

\* the record of tests::record_to_bytes
TestDoc == WireDoc(<<ScalarEntry(NameScal, CHAR(10))>>,
                   <<ArrayEntry(NameArr, <<3>>, <<CHAR(0), CHAR(1), CHAR(2)>>)>>)
\* the sub-record another writer puts behind a scalar of tag 0
InnerDoc == WireDoc(<<ScalarEntry(<<105>>, CHAR(1))>>,
                    <<ArrayEntry(<<106>>, <<1>>, <<CHAR(2)>>)>>)

HeadDocs == {WireDoc(sc, ar) : sc \in Picks(ScalarPool, MaxScalars),
                               ar \in Picks(ArrayPool, MaxArrays)}
TailDocs == {TestDoc}

\* the first records of the files that hold more than one record
LeadDocs == {d \in HeadDocs : Len(d.scalars) = 1 /\ Len(d.arrays) = 1}

Docs == {<<h>> : h \in HeadDocs}
            \cup {<<h>> \o t : h \in LeadDocs,
                               t \in SeqsUpTo(TailDocs, MaxRecords - 1) \ {<<>>}}

\* the HashMap a producer fills by inserting the entries in order
map_of(entries, Val(_)) ==
    [nm \in {entries[i].name : i \in 1..Len(entries)} |->
        LET last == CHOOSE i \in 1..Len(entries) :
                        /\ entries[i].name = nm
                        /\ \A j \in (i + 1)..Len(entries) : entries[j].name # nm
        IN  Val(entries[last])]

scalar_of(e) == RawDmapScalar(e.data)
array_of(e) == RawDmapArray(e.dimensions, e.data)

\* the RawDmapRecord of a document (tests::record_to_bytes, dmap.rs 676-686)
record_of(d) ==
    [num_scalars |-> Len(d.scalars),
     num_arrays |-> Len(d.arrays),
     scalar_list |-> [i \in 1..Len(d.scalars) |-> d.scalars[i].name],
     array_list |-> [i \in 1..Len(d.arrays) |-> d.arrays[i].name],
     scalars |-> map_of(d.scalars, scalar_of),
     arrays |-> map_of(d.arrays, array_of)]

RECURSIVE wire_record(_, _)
RECURSIVE wire_scalars(_, _)
RECURSIVE wire_arrays(_)

\* the wire format as another DMAP writer produces it (the files main.rs
\* reads): every entry written out, and a scalar of tag 0 followed by its
\* sub-record
wire_scalars(entries, depth) ==
    IF entries = <<>> THEN <<>>
    ELSE LET e == Head(entries)
         IN  e.name \o <<0>> \o <<get_key(e.data)>>
                 \o (IF e.data.type = "DMAP" /\ depth = 0
                     THEN wire_record(InnerDoc, depth + 1)
                     ELSE DmapType_to_bytes(e.data))
                 \o wire_scalars(Tail(entries), depth)

wire_arrays(entries) ==
    IF entries = <<>> THEN <<>>
    ELSE LET e == Head(entries)
         IN  e.name \o <<0>> \o <<get_key(e.data[1])>>
                 \o bytes_of(Len(e.dimensions), 4)
                 \o concat_bytes([i \in 1..Len(e.dimensions) |-> INT(e.dimensions[i])])
                 \o concat_bytes(e.data)
                 \o wire_arrays(Tail(entries))

wire_record(d, depth) ==
    LET body == wire_scalars(d.scalars, depth) \o wire_arrays(d.arrays)
    IN  bytes_of(code, 4) \o bytes_of(Len(body) + 16, 4)
            \o bytes_of(Len(d.scalars), 4) \o bytes_of(Len(d.arrays), 4) \o body

RECURSIVE wire_file(_)
wire_file(ds) ==
    IF ds = <<>> THEN <<>> ELSE wire_record(Head(ds), 0) \o wire_file(Tail(ds))

HasNested(d) == \E i \in 1..Len(d.scalars) : d.scalars[i].data.type = "DMAP"
HasRepeat(d) == \E i, j \in 1..Len(d.scalars) : i < j /\ d.scalars[i].name = d.scalars[j].name

(***************************************************************************)
(* The file pipeline: to_file writes the records (or another writer the    *)
(* document), read_records reads the file back record by record, the file  *)
(* may be damaged and read again, and to_file writes what was read.        *)
(***************************************************************************)
NoResult == [kind |-> "None", val |-> <<>>, err |-> NoError]
NoClean == [kind |-> "None", val |-> <<>>, err |-> NoError, stream |-> <<>>, starts |-> <<>>]
NoFault == [kind |-> "none", at |-> 0, val |-> 0]
NoCall == [fn |-> "none"]
NoRet == [kind |-> "None"]

BaseAligns == {0, 1}

Init ==
    /\ pc = "mem"
    /\ doc \in Docs
    /\ records = [i \in 1..Len(doc) |-> record_of(doc[i])]
    /\ stream = <<>>
    /\ cursor = 0
    /\ dmap_records = <<>>
    /\ starts = <<>>
    /\ result = NoResult
    /\ clean = NoClean
    /\ fault = NoFault
    /\ out = <<>>
    /\ base \in BaseAligns
    /\ overflow_checks \in BOOLEAN
    /\ call = NoCall
    /\ ret = NoRet

\* to_file(path, &records) (dmap.rs 612-620), then the file is opened
ToFile ==
    /\ pc = "mem"
    /\ LET b == to_file(records)
       IN  IF b = <<-1>>
           THEN pc' = "panic" /\ stream' = stream
           ELSE pc' = "read" /\ stream' = b
    /\ UNCHANGED <<doc, records, cursor, dmap_records, starts, result, clean,
                   fault, out, base, overflow_checks, call, ret>>

\* a file of another DMAP writer (main.rs 8-13)
ForeignFile ==
    /\ pc = "mem"
    /\ \E i \in 1..Len(doc) : HasNested(doc[i]) \/ HasRepeat(doc[i])
    /\ stream' = wire_file(doc)
    /\ pc' = "read"
    /\ records' = <<>>
    /\ UNCHANGED <<doc, cursor, dmap_records, starts, result, clean,
                   fault, out, base, overflow_checks, call, ret>>

\* the ? of dmap.rs 603: the error leaves read_records, the Vec is dropped
propagate_keeping(r, recs) ==
    [kind |-> r.kind, val |-> recs, err |-> r.err]

propagate(r, recs) ==
    [kind |-> r.kind, val |-> <<>>, err |-> r.err]

push(recs, r) == Append(recs, r)

\* one turn of the while loop of read_records (dmap.rs 602-604)
ParseNext ==
    /\ pc = "read"
    /\ cursor < Len(stream)
    /\ LET r == parse_record(stream, cursor)
       IN  IF r.kind = "Ok"
           THEN /\ dmap_records' = push(dmap_records, r.val[1])
                /\ cursor' = r.pos
                /\ starts' = Append(starts, cursor)
                /\ UNCHANGED <<pc, result>>
           ELSE /\ result' = propagate(r, dmap_records)
                /\ pc' = "done"
                /\ UNCHANGED <<cursor, dmap_records, starts>>
    /\ UNCHANGED <<doc, records, stream, clean, fault, out, base,
                   overflow_checks, call, ret>>

\* the loop ends and read_records returns Ok(dmap_records) (dmap.rs 602, 605)
ReturnRecords ==
    /\ pc = "read"
    /\ ~(cursor < Len(stream))
    /\ result' = [kind |-> "Ok", val |-> dmap_records, err |-> NoError]
    /\ pc' = "done"
    /\ UNCHANGED <<doc, records, stream, cursor, dmap_records, starts, clean,
                   fault, out, base, overflow_checks, call, ret>>

\* the file is read again after it was damaged
Reread(f, bytes) ==
    /\ pc = "done"
    /\ fault = NoFault
    /\ result.kind = "Ok"
    /\ fault' = f
    /\ stream' = bytes
    /\ clean' = [kind |-> result.kind, val |-> result.val, err |-> result.err,
                 stream |-> stream, starts |-> starts]
    /\ cursor' = 0
    /\ dmap_records' = <<>>
    /\ starts' = <<>>
    /\ result' = NoResult
    /\ pc' = "read"
    /\ UNCHANGED <<doc, records, out, base, overflow_checks, call, ret>>

\* the file loses its tail: only the first k bytes are read
Truncate ==
    \E k \in 0..(Len(stream) - 1) :
        Reread([kind |-> "truncate", at |-> k, val |-> 0], SubSeq(stream, 1, k))

patch(bytes, at, new) ==
    SubSeq(bytes, 1, at) \o new \o SubSeq(bytes, at + Len(new) + 1, Len(bytes))

size_at(bytes, at) == from_le_signed(SubSeq(bytes, at + 5, at + 8))

SizeValues(bytes, at) ==
    LET size == size_at(bytes, at)
        room == Len(bytes) - at
    IN  {-1, 0, 1, 2, 3, 17, size - 1, size + 1, room, room + 1, I32Max} \ {size}

\* the size field of one record of the file is altered
SetSize ==
    \E j \in 1..Len(starts) : \E v \in SizeValues(stream, starts[j]) :
        Reread([kind |-> "size", at |-> starts[j], val |-> v],
               patch(stream, starts[j] + 4, bytes_of(v, 4)))

\* the count fields of a record header: num_scalars at offset 8 of the
\* record, num_arrays at offset 12 (dmap.rs 306-317)
CountFields == {[name |-> "num_scalars", offset |-> 8],
                [name |-> "num_arrays", offset |-> 12]}

count_at(bytes, at, offset) ==
    from_le_signed(SubSeq(bytes, at + offset + 1, at + offset + 4))

CountValues(bytes, at, offset) ==
    {-1, 0, 2, size_at(bytes, at), I32Max} \ {count_at(bytes, at, offset)}

\* a count field of one record of the file is altered
SetCount ==
    \E j \in 1..Len(starts) : \E f \in CountFields :
        \E v \in CountValues(stream, starts[j], f.offset) :
            Reread([kind |-> f.name, at |-> starts[j], val |-> v],
                   patch(stream, starts[j] + f.offset, bytes_of(v, 4)))

\* the code field of the first record is altered
SetCode ==
    \E v \in {c \in {0, 2} : Len(stream) >= 4 /\ bytes_of(c, 4) # SubSeq(stream, 1, 4)} :
        Reread([kind |-> "code", at |-> 0, val |-> v], patch(stream, 0, bytes_of(v, 4)))

\* to_file(path, &records) on the records read back (main.rs 13-15)
Rewrite ==
    /\ pc = "done"
    /\ result.kind = "Ok"
    /\ LET b == to_file(result.val)
       IN  IF b = <<-1>>
           THEN pc' = "panic" /\ out' = out
           ELSE pc' = "rewritten" /\ out' = b
    /\ UNCHANGED <<doc, records, stream, cursor, dmap_records, starts, result,
                   clean, fault, base, overflow_checks, call, ret>>

Next ==
    \/ ToFile
    \/ ForeignFile
    \/ ParseNext
    \/ ReturnRecords
    \/ Truncate
    \/ SetSize
    \/ SetCount
    \/ SetCode
    \/ Rewrite

Spec == Init /\ [][Next]_vars

\* a step of read_records out of its loop condition (dmap.rs 602): the call
\* ends, or a record was decoded and the condition is tested again
LoopTurn ==
    /\ pc = "read"
    /\ \/ /\ pc' = "done"
          /\ UNCHANGED <<doc, records, stream, cursor, dmap_records, starts, result,
                         clean, fault, out, base, overflow_checks, call, ret>>
       \/ pc' \in {"read", "done"}

\* read_records, once called, keeps running: while it is in its loop it
\* takes the next turn
SpecLive == Spec /\ WF_vars(LoopTurn)

(***************************************************************************)
(* The functions of the codec called one at a time: call is the call made  *)
(* with its arguments, ret what it returned.  The pipeline is idle.        *)
(***************************************************************************)
MaxTag == 20
FloatOne == 1065353216

\* the type tags a buffer can hold, as the i8 read_data makes of the byte
as_i8(b) == IF b >= 128 THEN b - 256 ELSE b
TagBytes == 0..MaxTag \cup {127, 128, 255}

UnitValues ==
    { DMAP, CHAR(10), CHAR(-1), SHORT(-2), SHORT(258), INT(10), INT(-2),
      INT(I32Max), INT(I32Min), FLOAT(FloatOne), FLOAT(FloatNaN), DOUBLE(0),
      DOUBLE(-1), TEXT(TextTest), TEXT(<<>>), TEXT(<<65, 0>>), LONG(-3),
      LONG(I32Max), UCHAR(200), USHORT(65535), UINT(7), UINT(I32Max), ULONG(5) }

UnitArrays ==
    { RawDmapArray(<<3>>, <<CHAR(0), CHAR(1), CHAR(2)>>),
      RawDmapArray(<<1, 2>>, <<FLOAT(0), FLOAT(FloatNaN)>>),
      RawDmapArray(<<2>>, <<TEXT(TextTest), TEXT(<<>>)>>),
      RawDmapArray(<<2, 1>>, <<SHORT(258), INT(-2)>>),
      RawDmapArray(<<1>>, <<DMAP>>),
      RawDmapArray(<<2, 2>>, <<LONG(1), LONG(-3), LONG(2), LONG(0)>>),
      RawDmapArray(<<1>>, <<>>),
      RawDmapArray(<<3>>, <<CHAR(0), CHAR(1)>>),
      RawDmapArray(<<3, 1>>, <<CHAR(0), CHAR(1), CHAR(2)>>),
      RawDmapArray(<<3>>, <<CHAR(0), CHAR(1), CHAR(3)>>) }

\* what follows the header of an entry in the buffers handed to the parsers
Payload == <<0, 1, 2, 3, 0, 0, 0, 0>>

DimsDeclared ==
    { <<3>>, <<1, 2>>, <<2, 2>>, <<4, 4>>, <<0>>, <<-1>>,
      <<16, 16, 16, 16, 16, 16, 16, 16>>,
      <<65536, 65536>>, <<65536, 32768>>, <<32768, 32768>> }

RecordSizes == {2, 8, 59, 65536, I32Max}

ArrayTags == {0, 1, 3, 5, 9, 255}

\* an array entry as it lies in a buffer: name, 0, tag, dimension count,
\* dimensions, then the payload
array_head(tag, dims) ==
    NameArr \o <<0, tag>> \o bytes_of(Len(dims), 4)
        \o concat_bytes([i \in 1..Len(dims) |-> INT(dims[i])])

array_entry(tag, dims) == array_head(tag, dims) \o Payload

scalar_entry(tag) == NameScal \o <<0, tag>> \o Payload

\* two records one behind the other, as the sub-records of Nested values
\* lie in a buffer: 32 bytes, then 39 bytes
SubRecords == wire_record(InnerDoc, 1) \o wire_record(TestDoc, 1)

\* the entries followed by sub-records instead of numbers
nested_scalar_entry(tag) == NameScal \o <<0, tag>> \o SubRecords \o Payload
nested_array_entry(tag, dims) == array_head(tag, dims) \o SubRecords \o Payload

\* the buffers and shapes handed to read_data
ReadBufs ==
    { <<>>, <<0>>, <<65>>, <<65, 66, 0>>, <<65, 0, 66>>, <<0, 0>>, <<195, 0>>,
      <<195, 169, 0, 7>>, SubRecords }

ReadTypes == {DMAP, TEXT(<<>>), CHAR(0), INT(0), UINT(0)}

Bytes(b) == [kind |-> "Bytes", bytes |-> b]

\* the addresses (modulo 8) the allocator may give the buffer
UnitAligns == {0, 1, 2}

InitUnit ==
    /\ pc = "unit"
    /\ doc = <<>>
    /\ records = <<>>
    /\ stream = <<>>
    /\ cursor = 0
    /\ dmap_records = <<>>
    /\ starts = <<>>
    /\ result = NoResult
    /\ clean = NoClean
    /\ fault = NoFault
    /\ out = <<>>
    /\ base \in UnitAligns
    /\ overflow_checks \in BOOLEAN
    /\ call = NoCall
    /\ ret = NoRet

Idle == UNCHANGED <<pc, doc, records, stream, cursor, dmap_records, starts,
                    result, clean, fault, out, base, overflow_checks>>

\* v.to_bytes() (dmap.rs 114-134)
CallToBytes ==
    \E v \in UnitValues :
        /\ call = NoCall
        /\ call' = [fn |-> "DmapType::to_bytes", v |-> v]
        /\ ret' = Bytes(DmapType_to_bytes(v))
        /\ Idle

\* DmapType::get_type_from_key(v.get_key()) (dmap.rs 74-111)
CallGetKey ==
    \E v \in UnitValues :
        /\ call = NoCall
        /\ call' = [fn |-> "get_key", v |-> v]
        /\ ret' = get_type_from_key(get_key(v))
        /\ Idle

\* DmapType::get_type_from_key(key) on any i8 (dmap.rs 74-93)
CallGetTypeFromKey ==
    \E b \in TagBytes :
        /\ call = NoCall
        /\ call' = [fn |-> "get_type_from_key", tag |-> as_i8(b)]
        /\ ret' = get_type_from_key(as_i8(b))
        /\ Idle

\* RawDmapScalar::new(v).to_bytes() (dmap.rs 164-169)
CallScalarToBytes ==
    \E v \in UnitValues :
        /\ call = NoCall
        /\ call' = [fn |-> "RawDmapScalar::to_bytes", v |-> v]
        /\ ret' = Bytes(RawDmapScalar_to_bytes(RawDmapScalar(v)))
        /\ Idle

\* RawDmapArray::new(dimensions, data).to_bytes() (dmap.rs 194-205)
CallArrayToBytes ==
    \E a \in UnitArrays :
        /\ call = NoCall
        /\ call' = [fn |-> "RawDmapArray::to_bytes", a |-> a]
        /\ ret' = IF RawDmapArray_to_bytes(a) = <<-1>> THEN Panic(PanicIndex)
                  ELSE Bytes(RawDmapArray_to_bytes(a))
        /\ Idle

\* the records handed to RawDmapRecord::to_bytes: the record of
\* tests::record_to_bytes, and records whose name lists and maps disagree
\* (every field is pub)
UnitRecords ==
    LET r == record_of(TestDoc)
        two == record_of(WireDoc(<<ScalarEntry(NameScal, CHAR(10)),
                                   ScalarEntry(NameT, TEXT(TextTest))>>,
                                 <<ArrayEntry(NameArr, <<3>>, <<CHAR(0), CHAR(1), CHAR(2)>>)>>))
    IN  { r, two,
          [r EXCEPT !.scalar_list = <<NameScal, NameT>>, !.num_scalars = 2],
          [r EXCEPT !.scalar_list = <<NameT, NameScal>>, !.num_scalars = 2],
          [r EXCEPT !.scalar_list = <<NameT>>],
          [r EXCEPT !.array_list = <<NameArr, NameM>>, !.num_arrays = 2],
          [r EXCEPT !.array_list = <<NameM>>],
          [r EXCEPT !.scalars = EmptyMap],
          [r EXCEPT !.arrays = EmptyMap],
          [two EXCEPT !.scalar_list = <<NameScal>>],
          [two EXCEPT !.num_scalars = 1],
          [r EXCEPT !.scalars = insert(EmptyMap, NameScal, RawDmapScalar(CHAR(11)))],
          [r EXCEPT !.arrays = insert(EmptyMap, NameArr, RawDmapArray(<<1>>, <<>>))] }

\* the panic of RawDmapRecord::to_bytes (dmap.rs 252-265): the expect() of
\* the first listed name that is missing, or data[0] of an earlier array
\* without elements (dmap.rs 196)
to_bytes_panic(rec) ==
    IF \E i \in 1..Len(rec.scalar_list) : rec.scalar_list[i] \notin DOMAIN rec.scalars
    THEN Panic(PanicMissing)
    ELSE LET bad(i) == \/ rec.array_list[i] \notin DOMAIN rec.arrays
                       \/ rec.arrays[rec.array_list[i]].data = <<>>
             k == CHOOSE i \in 1..Len(rec.array_list) :
                      bad(i) /\ \A j \in 1..(i - 1) : ~bad(j)
         IN  IF rec.array_list[k] \notin DOMAIN rec.arrays
             THEN Panic(PanicMissing) ELSE Panic(PanicIndex)

\* rec.to_bytes() (dmap.rs 247-273)
CallRecordToBytes ==
    \E rec \in UnitRecords :
        /\ call = NoCall
        /\ call' = [fn |-> "RawDmapRecord::to_bytes", rec |-> rec]
        /\ ret' = IF RawDmapRecord_to_bytes(rec) = <<-1>> THEN to_bytes_panic(rec)
                  ELSE Bytes(RawDmapRecord_to_bytes(rec))
        /\ Idle

Bool(b) == [kind |-> "Bool", val |-> b]

\* a == b on two arrays (dmap.rs 179-190)
CallArrayEq ==
    \E a \in UnitArrays, b \in UnitArrays :
        /\ call = NoCall
        /\ call' = [fn |-> "RawDmapArray::eq", a |-> a, b |-> b]
        /\ ret' = Bool(RawDmapArrayEq(a, b))
        /\ Idle

\* a == b on two records (dmap.rs 224-243)
CallRecordEq ==
    \E a \in UnitRecords, b \in UnitRecords :
        /\ call = NoCall
        /\ call' = [fn |-> "RawDmapRecord::eq", a |-> a, b |-> b]
        /\ ret' = Bool(RawDmapRecordEq(a, b))
        /\ Idle

\* parse_scalar on a cursor at the start of a scalar entry (dmap.rs 369-404)
CallParseScalar ==
    \E b \in TagBytes :
      \E buf \in {scalar_entry(b)} \cup {nested_scalar_entry(t) : t \in {b} \cap {0}} :
        /\ call = NoCall
        /\ call' = [fn |-> "parse_scalar", tag |-> as_i8(b), buf |-> buf]
        /\ ret' = parse_scalar(buf, 0)
        /\ Idle

\* parse_array on a cursor at the start of an array entry (dmap.rs 407-493)
CallParseArray ==
    \E b \in ArrayTags, dims \in DimsDeclared, record_size \in RecordSizes :
        \E buf \in {array_entry(b, dims)}
                      \cup {nested_array_entry(b, dims) : r \in {record_size} \cap 0..65536} :
            /\ call = NoCall
            /\ call' = [fn |-> "parse_array", tag |-> as_i8(b), dims |-> dims,
                        record_size |-> record_size, buf |-> buf]
            /\ ret' = parse_array(buf, 0, record_size)
            /\ Idle

\* read_data on a cursor anywhere in a buffer, at its end and behind it
\* (dmap.rs 496-586)
CallReadData ==
    \E buf \in ReadBufs, data_type \in ReadTypes :
        \E position \in 0..(Len(buf) + 1) :
            /\ call = NoCall
            /\ call' = [fn |-> "read_data", buf |-> buf, position |-> position,
                        data_type |-> data_type]
            /\ ret' = read_data(buf, position, data_type)
            /\ Idle

NextUnit ==
    \/ CallToBytes
    \/ CallGetKey
    \/ CallGetTypeFromKey
    \/ CallScalarToBytes
    \/ CallArrayToBytes
    \/ CallRecordToBytes
    \/ CallArrayEq
    \/ CallRecordEq
    \/ CallParseScalar
    \/ CallParseArray
    \/ CallReadData

SpecUnit == InitUnit /\ [][NextUnit]_vars

(***************************************************************************)
(* Properties of the file pipeline.                                        *)
(***************************************************************************)
Range(q) == {q[i] : i \in 1..Len(q)}

RECURSIVE Product(_)
Product(dims) == IF dims = <<>> THEN 1 ELSE Head(dims) * Product(Tail(dims))

\* the invariants of an in-memory record: counts, name lists and maps agree,
\* no name is repeated, every array is homogeneous and holds the product of
\* its dimensions
WellFormedArray(a) ==
    /\ a.data # <<>>
    /\ \A i \in 1..Len(a.data) : a.data[i].type = a.data[1].type
    /\ Len(a.data) = Product(a.dimensions)

WellFormed(rec) ==
    /\ rec.num_scalars = Len(rec.scalar_list)
    /\ rec.num_arrays = Len(rec.array_list)
    /\ Cardinality(Range(rec.scalar_list)) = Len(rec.scalar_list)
    /\ Cardinality(Range(rec.array_list)) = Len(rec.array_list)
    /\ DOMAIN rec.scalars = Range(rec.scalar_list)
    /\ DOMAIN rec.arrays = Range(rec.array_list)
    /\ \A n \in DOMAIN rec.arrays : WellFormedArray(rec.arrays[n])

\* every value of the record equals itself (no NaN payload)
SelfEqual(rec) == RawDmapRecordEq(rec, rec)

\* the stream was written by to_file from the records in memory and has not
\* been damaged
Written == pc # "mem" /\ pc # "panic" /\ records # <<>> /\ fault = NoFault

\* C1: a well-formed record (at least one scalar and one array, every value
\* equal to itself) that is encoded and decoded again comes back as exactly
\* one record, equal to the original under the record equality; records
\* with a Nested scalar included.
C1_RoundTrip ==
    (/\ pc = "done" /\ Written /\ Len(records) = 1
     /\ WellFormed(records[1]) /\ SelfEqual(records[1])
     /\ records[1].num_scalars > 0 /\ records[1].num_arrays > 0)
    => (/\ result.kind = "Ok"
        /\ Len(result.val) = 1
        /\ RawDmapRecordEq(result.val[1], records[1]))

\* the round trip does hold for the record of tests::record_to_bytes
C1_TestRecordRoundTrips ==
    /\ pc = "done" /\ Written /\ doc = <<TestDoc>>
    /\ result.kind = "Ok" /\ Len(result.val) = 1
    /\ RawDmapRecordEq(result.val[1], records[1])

\* the offsets at which the top-level records of the undamaged file start
Boundaries == Range(clean.starts)

\* the records of the undamaged file that end at or before byte k
CompleteBefore(k) ==
    Cardinality({i \in 1..Len(clean.starts) :
                    clean.starts[i] + size_at(clean.stream, clean.starts[i]) <= k})

\* the bounds errors of read_data and the size errors of parse_record
BoundsOrSizeError(msg) ==
    \/ msg \in {MsgCursorOut, MsgNotAligned, MsgSizeExceeds, MsgSizeNonPositive}
    \/ \E r, v \in 0..Len(clean.stream) : msg = MsgSizeMismatch(r, v)

\* C2 (as stated): read_records on the first k bytes of a well-formed
\* buffer, 0 <= k < length, returns an error, a bounds or a size-integrity
\* one.
C2_TruncationFails ==
    (pc = "done" /\ fault.kind = "truncate")
    => (/\ result.kind = "Err"
        /\ BoundsOrSizeError(result.err.msg))

\* C2 (amended): read_records on the first k bytes of a well-formed buffer,
\* 0 <= k < length, never panics and never returns records that are not a
\* prefix of the original's; it returns Ok only when k is 0 or the start of
\* a top-level record, and then exactly the records that end before k; for
\* every other k it returns a bounds ("byte offsets") or a "size exceeds
\* remaining buffer" error.
C2_TruncationSafe ==
    (pc = "done" /\ fault.kind = "truncate")
    => (/\ result.kind \in {"Ok", "Err"}
        /\ result.kind = "Err" => result.err.msg \in {MsgNotAligned, MsgSizeExceeds}
        /\ result.kind = "Ok" =>
               /\ fault.at \in Boundaries
               /\ result.val = SubSeq(clean.val, 1, CompleteBefore(fault.at))
        /\ fault.at \notin Boundaries => result.kind = "Err")

\* a buffer cut inside the second record's entries is refused
C2_CutInsideSecondRecord ==
    /\ pc = "done" /\ fault.kind = "truncate"
    /\ Len(clean.starts) = 2
    /\ fault.at > clean.starts[2] + 16
    /\ result.kind = "Err" /\ result.err.msg = MsgSizeExceeds

\* the record of the undamaged file whose size field was altered, the bytes
\* it consumes and the bytes that remain from its start
Altered == clean.val[CHOOSE j \in 1..Len(clean.starts) : clean.starts[j] = fault.at]
Consumed == size_at(clean.stream, fault.at)
Room == Len(stream) - fault.at

\* the altered size passes every check made before the entries are consumed
\* (dmap.rs 291-322, 433-472)
PassesEarlierChecks(v, rec) ==
    /\ v > 0
    /\ v >= rec.num_scalars + rec.num_arrays
    /\ \A n \in DOMAIN rec.arrays :
           /\ Len(rec.arrays[n].dimensions) <= v
           /\ \A i \in 1..Len(rec.arrays[n].dimensions) : rec.arrays[n].dimensions[i] <= v
           /\ Product(rec.arrays[n].dimensions) <= v
           /\ Product(rec.arrays[n].dimensions) * get_num_bytes(rec.arrays[n].data[1]) <= v

\* C3 (as stated): a size field altered to more than the remaining buffer
\* fails with "size exceeds remaining buffer"; altered to less than the
\* bytes the record consumes it fails with "size does not match consumed
\* bytes".
C3_SizeEnforced ==
    (pc = "done" /\ fault.kind = "size")
    => (/\ fault.val > Room =>
               result.kind = "Err" /\ result.err.msg = MsgSizeExceeds
        /\ fault.val < Consumed =>
               result.kind = "Err" /\ result.err.msg = MsgSizeMismatch(Consumed, fault.val))

\* C3 (amended): a size field altered to more than the remaining buffer
\* fails with "size exceeds remaining buffer"; altered to less than the
\* bytes the record consumes, decode fails: with "size does not match
\* consumed bytes" when the value is positive and not below the entry count
\* nor below any array's dimension count, dimensions, element total and
\* byte size, and with the error of the first of those checks otherwise.
C3_SizeEnforcedAmended ==
    (pc = "done" /\ fault.kind = "size")
    => (/\ fault.val > Room =>
               result.kind = "Err" /\ result.err.msg = MsgSizeExceeds
        /\ fault.val < Consumed =>
               /\ result.kind = "Err"
               /\ result.err.msg \in
                      IF PassesEarlierChecks(fault.val, Altered)
                      THEN {MsgSizeMismatch(Consumed, fault.val)}
                      ELSE {MsgSizeExceeds, MsgSizeNonPositive, MsgElementCount,
                            MsgDimCountBig, MsgDimBig, MsgTotalBig, MsgArraySizeBig})

\* a size one less than the bytes consumed is refused as a mismatch, in the
\* second record of a file
C3_MismatchSeen ==
    /\ pc = "done" /\ fault.kind = "size" /\ fault.at > 0
    /\ fault.val = Consumed - 1
    /\ result.kind = "Err" /\ result.err.msg = MsgSizeMismatch(Consumed, Consumed - 1)

\* the bytes of buf from offset p up to the first 0 byte
NameAt(buf, p) ==
    SubSeq(buf, p + 1, (CHOOSE e \in p..Len(buf) : buf[e + 1] = 0 /\ \A x \in (p + 1)..e : buf[x] # 0))

\* the offset just behind record i of the records read so far
EndOf(i) == IF i < Len(starts) THEN starts[i + 1] ELSE cursor

\* C6: read_records returns either Ok with all records, in buffer order and
\* covering the buffer from its first byte to its last without gap, or the
\* first error any record met and no record at all.
C6_AllOrNothing ==
    /\ (pc = "done" /\ result.kind # "Ok") => result.val = <<>>
    /\ (pc \in {"read", "done"}) =>
           /\ Len(dmap_records) = Len(starts)
           /\ starts # <<>> => starts[1] = 0
           /\ \A i \in 1..Len(starts) :
                  /\ EndOf(i) = starts[i] + size_at(stream, starts[i])
                  /\ dmap_records[i].scalar_list[1] = NameAt(stream, starts[i] + 16)
    /\ (pc = "done" /\ result.kind = "Ok") =>
           /\ result.val = dmap_records
           /\ cursor = Len(stream)

\* the second record of a buffer fails after the first one was decoded
C6_SecondRecordFails ==
    /\ pc = "done" /\ result.kind = "Err"
    /\ Len(dmap_records) = 1
    /\ result.val = <<>>

\* the offset in the stream at which record i of the records written starts
RECURSIVE OffsetOf(_)
OffsetOf(i) == IF i = 1 THEN 0 ELSE OffsetOf(i - 1) + size_at(stream, OffsetOf(i - 1))

\* the bytes of entry i of a record: name, 0 byte, encoded scalar or array
EntryBytes(rec, i) ==
    IF i <= Len(rec.scalar_list)
    THEN rec.scalar_list[i] \o <<0>>
             \o RawDmapScalar_to_bytes(rec.scalars[rec.scalar_list[i]])
    ELSE rec.array_list[i - Len(rec.scalar_list)] \o <<0>>
             \o RawDmapArray_to_bytes(rec.arrays[rec.array_list[i - Len(rec.scalar_list)]])

RECURSIVE EntriesLen(_, _)
EntriesLen(rec, i) == IF i = 0 THEN 0 ELSE EntriesLen(rec, i - 1) + Len(EntryBytes(rec, i))

EntryCount(rec) == Len(rec.scalar_list) + Len(rec.array_list)

\* C7: a record is written as code 65537, size, scalar count and array count
\* (four little-endian Ints), then every scalar in scalar_list order, then
\* every array in array_list order, each as name, 0 byte and encoded entry;
\* the size written is the length of the record's bytes.
C7_RecordLayout ==
    (Written /\ pc = "read" /\ cursor = 0)
    => (/\ \A r \in 1..Len(records) :
               /\ SubSeq(stream, OffsetOf(r) + 1, OffsetOf(r) + 4) = <<1, 0, 1, 0>>
               /\ size_at(stream, OffsetOf(r)) = 16 + EntriesLen(records[r], EntryCount(records[r]))
               /\ from_le_signed(SubSeq(stream, OffsetOf(r) + 9, OffsetOf(r) + 12))
                      = records[r].num_scalars
               /\ from_le_signed(SubSeq(stream, OffsetOf(r) + 13, OffsetOf(r) + 16))
                      = records[r].num_arrays
               /\ \A i \in 1..EntryCount(records[r]) :
                      SubSeq(stream, OffsetOf(r) + 16 + EntriesLen(records[r], i - 1) + 1,
                                     OffsetOf(r) + 16 + EntriesLen(records[r], i))
                          = EntryBytes(records[r], i)
        /\ OffsetOf(Len(records) + 1) = Len(stream))

\* the 39 bytes of tests::record_to_bytes
C7_TestVector ==
    /\ Written /\ pc = "read" /\ cursor = 0
    /\ doc = <<TestDoc>>
    /\ stream = <<1, 0, 1, 0, 39, 0, 0, 0, 1, 0, 0, 0, 1, 0, 0, 0,
                  115, 99, 97, 108, 0, 1, 10,
                  97, 114, 114, 0, 1, 1, 0, 0, 0, 3, 0, 0, 0, 0, 1, 2>>

\* C10: the bytes to_file writes from the records read_records returned are
\* the bytes that were read.
C10_Reserialize == pc = "rewritten" => out = stream

\* the header fields of the record whose header was altered, as they lie in
\* the stream, and the bytes behind its size field
FaultSize == size_at(stream, fault.at)
FaultScalars == count_at(stream, fault.at, 8)
FaultArrays == count_at(stream, fault.at, 12)
Remaining == Len(stream) - (fault.at + 8)

HeaderFaults == {"size", "num_scalars", "num_arrays"}

\* C12: a record header fails with the error of the first condition it
\* meets: size > remaining + 8 "size exceeds remaining buffer"; size <= 0,
\* zero or negative, "non-positive size"; scalar_count <= 0 "non-positive
\* scalar count"; array_count <= 0 "non-positive array count";
\* scalar_count + array_count > size "element count exceeds declared size".
C12_HeaderValidation ==
    (pc = "done" /\ fault.kind \in HeaderFaults)
    => (/\ FaultSize > Remaining + 8 =>
               result.kind = "Err" /\ result.err.msg = MsgSizeExceeds
        /\ FaultSize <= 0 =>
               result.kind = "Err" /\ result.err.msg = MsgSizeNonPositive
        /\ (FaultSize > 0 /\ FaultSize <= Remaining + 8) =>
               /\ FaultScalars <= 0 =>
                      result.kind = "Err" /\ result.err.msg = MsgScalarCount
               /\ (FaultScalars > 0 /\ FaultArrays <= 0) =>
                      result.kind = "Err" /\ result.err.msg = MsgArrayCount
               /\ (FaultScalars > 0 /\ FaultArrays > 0
                       /\ FaultScalars > FaultSize - FaultArrays) =>
                      result.kind = "Err" /\ result.err.msg = MsgElementCount)

\* what the header checks do answer: a negative size is refused as "size
\* exceeds remaining buffer", and where the i32 sum of the counts overflows
\* the build panics or goes on to the entries with the wrapped sum
C12_HeaderChecks ==
    (pc = "done" /\ fault.kind \in HeaderFaults)
    => (/\ (FaultSize > Remaining + 8 \/ FaultSize < 0) =>
               result.kind = "Err" /\ result.err.msg = MsgSizeExceeds
        /\ FaultSize = 0 =>
               result.kind = "Err" /\ result.err.msg = MsgSizeNonPositive
        /\ (FaultSize > 0 /\ FaultSize <= Remaining + 8) =>
               /\ FaultScalars <= 0 =>
                      result.kind = "Err" /\ result.err.msg = MsgScalarCount
               /\ (FaultScalars > 0 /\ FaultArrays <= 0) =>
                      result.kind = "Err" /\ result.err.msg = MsgArrayCount
               /\ (FaultScalars > 0 /\ FaultArrays > 0
                       /\ ~AddOverflows(FaultScalars, FaultArrays)
                       /\ FaultScalars + FaultArrays > FaultSize) =>
                      result.kind = "Err" /\ result.err.msg = MsgElementCount
               /\ (FaultScalars > 0 /\ FaultArrays > 0
                       /\ AddOverflows(FaultScalars, FaultArrays)) =>
                      IF overflow_checks THEN result = propagate(Panic(PanicAdd), <<>>)
                      ELSE result.kind # "Ok")

\* C13: whenever parse_record returns Ok from position p on a header that
\* declares size s, the cursor is then p + s and within the buffer; when the
\* entries of a record end anywhere else than at p + s, parse_record returns
\* the size-mismatch error, which names the bytes consumed and s.
C13_ConsumedBytes ==
    /\ pc \in {"read", "done"} =>
           /\ cursor <= Len(stream)
           /\ \A i \in 1..Len(starts) :
                  /\ EndOf(i) = starts[i] + size_at(stream, starts[i])
                  /\ EndOf(i) <= Len(stream)
    /\ (/\ pc = "done" /\ fault.kind = "size"
        /\ fault.val # Consumed /\ fault.val <= Room
        /\ PassesEarlierChecks(fault.val, Altered)) =>
           /\ result.kind = "Err"
           /\ result.err.msg = MsgSizeMismatch(Consumed, fault.val)

\* the second record of a file is decoded from p > 0 and the cursor ends at
\* p + s, the end of the buffer
C13_SecondRecordConsumed ==
    /\ pc = "done" /\ result.kind = "Ok"
    /\ Len(starts) = 2 /\ starts[2] > 0
    /\ cursor = starts[2] + size_at(stream, starts[2])
    /\ cursor = Len(stream)

\* C15: every record parse_record returns has num_scalars = the length of
\* scalar_list = the size of scalars, num_arrays = the length of array_list
\* = the size of arrays, and every listed name in its map; also when two
\* entries of the buffer carry the same name.
C15_RecordInvariant ==
    \A i \in 1..Len(dmap_records) :
        LET rec == dmap_records[i]
        IN  /\ rec.num_scalars = Len(rec.scalar_list)
            /\ Len(rec.scalar_list) = Cardinality(DOMAIN rec.scalars)
            /\ rec.num_arrays = Len(rec.array_list)
            /\ Len(rec.array_list) = Cardinality(DOMAIN rec.arrays)
            /\ Range(rec.scalar_list) \subseteq DOMAIN rec.scalars
            /\ Range(rec.array_list) \subseteq DOMAIN rec.arrays

\* what holds of every record returned: the counts are the lengths of the
\* name lists, the maps hold exactly the listed names, and a name listed
\* twice has one entry, the value of its last occurrence in the buffer
C15_ListsAndMaps ==
    \A i \in 1..Len(dmap_records) :
        LET rec == dmap_records[i]
        IN  /\ rec.num_scalars = Len(rec.scalar_list)
            /\ rec.num_arrays = Len(rec.array_list)
            /\ Range(rec.scalar_list) = DOMAIN rec.scalars
            /\ Range(rec.array_list) = DOMAIN rec.arrays
            /\ (pc = "done" /\ records = <<>> /\ fault = NoFault
                   /\ result.kind = "Ok" /\ ~HasNested(doc[i])) =>
                   \A k \in 1..Len(doc[i].scalars) :
                       (\A j \in (k + 1)..Len(doc[i].scalars) :
                            doc[i].scalars[j].name # doc[i].scalars[k].name)
                       => rec.scalars[doc[i].scalars[k].name].data = doc[i].scalars[k].data

\* a record with a repeated scalar name is returned
C15_RepeatedNameSeen ==
    /\ pc = "done" /\ result.kind = "Ok" /\ fault = NoFault
    /\ \E i \in 1..Len(dmap_records) :
           /\ Len(dmap_records[i].scalar_list) = 2
           /\ Cardinality(DOMAIN dmap_records[i].scalars) = 1

\* a turn of the loop of read_records that decoded a record
RecordDecoded == pc = "read" /\ pc' = "read"

\* C18: read_records terminates on every buffer, with Ok or with an error,
\* and every record it decodes moves the cursor forward.
C18_Termination ==
    /\ [][RecordDecoded => cursor' > cursor]_vars
    /\ (pc = "read") ~> (pc = "done" /\ result.kind \in {"Ok", "Err"})

\* what holds: read_records leaves its loop on every buffer, every decoded
\* record moves the cursor forward by at least the 16 bytes of a header and
\* never behind the end of the buffer; the call ends with Ok, an error or a
\* panic
C18_LoopEnds ==
    /\ [][RecordDecoded => (cursor' >= cursor + 16 /\ cursor' <= Len(stream))]_vars
    /\ (pc = "read") ~> (pc = "done" /\ result.kind \in {"Ok", "Err", "Panic"})

\* read_records ends in a panic: a count field promises an entry where the
\* buffer ends
C18_PanicSeen ==
    /\ pc = "done" /\ result.kind = "Panic"
    /\ fault.kind = "num_arrays"

(***************************************************************************)
(* Properties of the single functions.                                     *)
(***************************************************************************)
RECURSIVE ProductExceeds(_, _, _)
\* the exact product p * dims[1] * ... exceeds cap (p <= cap, factors >= 0),
\* found without forming a number above cap
ProductExceeds(dims, p, cap) ==
    IF dims = <<>> \/ p = 0 THEN FALSE
    ELSE IF Head(dims) = 0 THEN FALSE
    ELSE IF p > cap \div Head(dims) THEN TRUE
    ELSE ProductExceeds(Tail(dims), p * Head(dims), cap)

WidthOf(tag) == get_num_bytes(get_type_from_key(tag).val[1])

ArrayChecks == {MsgDimCountBig, MsgDimBig, MsgTotalBig, MsgArraySizeBig}

\* C4: parse_array on an array entry whose dimensions have an exact product P
\* with P > record_size or P * byteWidth(tag) > record_size returns an
\* error of its own checks, before it reads an element, also when the i32
\* products leave the i32 range.
C4_ArrayBound ==
    (/\ call.fn = "parse_array"
     /\ call.tag \in KeySet
     /\ \A i \in 1..Len(call.dims) : call.dims[i] > 0
     /\ \/ ProductExceeds(call.dims, 1, call.record_size)
        \/ ProductExceeds(call.dims \o <<WidthOf(call.tag)>>, 1, call.record_size))
    => (ret.kind = "Err" /\ ret.err.msg \in ArrayChecks)

\* the bound is enforced where no product leaves the i32 range
C4_BoundSeen ==
    /\ call.fn = "parse_array" /\ call.tag = 3 /\ call.dims = <<4, 4>>
    /\ call.record_size = 59
    /\ ret.kind = "Err" /\ ret.err.msg = MsgArraySizeBig

\* C5: get_type_from_key(get_key(v)) has the variant of v, and for every tag
\* outside the table get_type_from_key, parse_scalar and parse_array fail
\* with the error kind that carries the offending tag.
C5_TagTable ==
    /\ call.fn = "get_key" => (ret.kind = "Ok" /\ ret.val[1].type = call.v.type)
    /\ (call.fn \in {"get_type_from_key", "parse_scalar", "parse_array"}
        /\ call.tag \notin KeySet)
       => (/\ ret.kind = "Err"
           /\ ret.err.kind = "BadVal"
           /\ ret.err.val = <<CHAR(call.tag)>>)

\* the part of C5 the code keeps: the table is its own inverse, and
\* parse_scalar names the tag it refuses
C5_TableInverse ==
    /\ call.fn = "get_key" => (ret.kind = "Ok" /\ ret.val[1].type = call.v.type)
    /\ (call.fn = "parse_scalar" /\ call.tag \notin KeySet)
       => (ret.kind = "Err" /\ ret.err = BadVal(MsgScalarType, CHAR(call.tag)))
    /\ (call.fn \in {"get_type_from_key", "parse_array"} /\ call.tag \notin KeySet)
       => ret.kind = "Err"

RECURSIVE ShiftRight(_, _)
\* x without its i lowest bytes
ShiftRight(x, i) == IF i = 0 THEN x ELSE ShiftRight(x \div 256, i - 1)

RECURSIVE ElementsLen(_, _)
\* the length of the encodings of the first j elements
ElementsLen(data, j) ==
    IF j = 0 THEN 0 ELSE ElementsLen(data, j - 1) + Len(DmapType_to_bytes(data[j]))

\* C8: a scalar entry is written as the tag byte of its value and then the
\* encoded value; an array entry as the tag byte of elements[0], the
\* dimension count and every dimension as 4 little-endian bytes, then every
\* element's encoding in stored order: 1 + 4 + 4 * ndims + the elements'
\* bytes in all.
C8_EntryLayout ==
    /\ call.fn = "RawDmapScalar::to_bytes" =>
           /\ ret.kind = "Bytes"
           /\ Len(ret.bytes) = 1 + Len(DmapType_to_bytes(call.v))
           /\ ret.bytes[1] = get_key(call.v)
           /\ SubSeq(ret.bytes, 2, Len(ret.bytes)) = DmapType_to_bytes(call.v)
    /\ (call.fn = "RawDmapArray::to_bytes" /\ call.a.data # <<>>) =>
           /\ ret.kind = "Bytes"
           /\ Len(ret.bytes) = 1 + 4 + 4 * Len(call.a.dimensions)
                                   + ElementsLen(call.a.data, Len(call.a.data))
           /\ ret.bytes[1] = get_key(call.a.data[1])
           /\ from_le_signed(SubSeq(ret.bytes, 2, 5)) = Len(call.a.dimensions)
           /\ \A i \in 1..Len(call.a.dimensions) :
                  from_le_signed(SubSeq(ret.bytes, 2 + 4 * i, 5 + 4 * i))
                      = call.a.dimensions[i]
           /\ \A j \in 1..Len(call.a.data) :
                  SubSeq(ret.bytes,
                         5 + 4 * Len(call.a.dimensions) + ElementsLen(call.a.data, j - 1) + 1,
                         5 + 4 * Len(call.a.dimensions) + ElementsLen(call.a.data, j))
                      = DmapType_to_bytes(call.a.data[j])

\* the bytes of tests::array_to_bytes
C8_ArrayTestVector ==
    /\ call.fn = "RawDmapArray::to_bytes"
    /\ call.a = RawDmapArray(<<3>>, <<CHAR(0), CHAR(1), CHAR(2)>>)
    /\ ret = Bytes(<<1, 1, 0, 0, 0, 3, 0, 0, 0, 0, 1, 2>>)

\* C9: to_bytes of a numeric value is get_num_bytes() bytes, byte i holding
\* bits 8i..8i+7 of the value; of a Text the bytes of the string and one 0
\* byte behind them, whatever the string holds; of a Nested no byte.
C9_ValueEncoding ==
    call.fn = "DmapType::to_bytes" =>
        /\ ret.kind = "Bytes"
        /\ call.v.type = "DMAP" => ret.bytes = <<>>
        /\ call.v.type = "STRING" =>
               /\ Len(ret.bytes) = Len(call.v.str) + 1
               /\ SubSeq(ret.bytes, 1, Len(call.v.str)) = call.v.str
               /\ ret.bytes[Len(ret.bytes)] = 0
        /\ call.v.type \notin {"DMAP", "STRING"} =>
               /\ Len(ret.bytes) = get_num_bytes(call.v)
               /\ get_num_bytes(call.v) \in {1, 2, 4, 8}
               /\ \A i \in 0..(Len(ret.bytes) - 1) :
                      ret.bytes[i + 1] = ShiftRight(call.v.num, i) % 256

\* the bytes of tests::int_to_bytes
C9_IntTestVector ==
    /\ call.fn = "DmapType::to_bytes" /\ call.v = INT(10)
    /\ ret = Bytes(<<10, 0, 0, 0>>)

\* the listed names of a record that its maps do not hold
MissingNames(rec) ==
    (Range(rec.scalar_list) \ DOMAIN rec.scalars)
        \cup (Range(rec.array_list) \ DOMAIN rec.arrays)

\* C11: RawDmapRecord::to_bytes on a record with a name in scalar_list or
\* array_list that its map does not hold panics and returns no bytes; when
\* it does return bytes, every listed name was in its map and every entry
\* is in the bytes (the size written covers every listed entry).
C11_MissingNameAborts ==
    call.fn = "RawDmapRecord::to_bytes" =>
        /\ MissingNames(call.rec) # {} => ret.kind = "Panic"
        /\ ret.kind = "Bytes" =>
               /\ MissingNames(call.rec) = {}
               /\ Len(ret.bytes) = 16 + EntriesLen(call.rec, EntryCount(call.rec))

\* to_bytes panics on a record whose second listed scalar is not in the map
C11_MissingScalarSeen ==
    /\ call.fn = "RawDmapRecord::to_bytes"
    /\ call.rec.scalar_list = <<NameScal, NameT>>
    /\ NameT \notin DOMAIN call.rec.scalars
    /\ ret = Panic(PanicMissing)

\* the offset behind the n sub-records that start at offset p of buf
RECURSIVE BehindSubRecords(_, _, _)
BehindSubRecords(buf, p, n) ==
    IF n = 0 THEN p ELSE BehindSubRecords(buf, p + size_at(buf, p), n - 1)

\* C14: a Nested value decoded successfully leaves the cursor behind the
\* sub-record it parsed: read_data with the Nested shape at p ends at p plus
\* the sub-record's bytes, parse_scalar with tag 0 ends behind the scalar's
\* sub-record, and parse_array with tag 0 ends behind as many successive
\* sub-records as the array has elements.
C14_NestedAdvances ==
    /\ (call.fn = "read_data" /\ call.data_type = DMAP /\ ret.kind = "Ok") =>
           ret.pos = call.position + size_at(call.buf, call.position)
    /\ (call.fn = "parse_scalar" /\ call.tag = 0 /\ ret.kind = "Ok") =>
           ret.pos = BehindSubRecords(call.buf, Len(NameScal) + 2, 1)
    /\ (call.fn = "parse_array" /\ call.tag = 0 /\ ret.kind = "Ok") =>
           ret.pos = BehindSubRecords(call.buf, Len(array_head(0, call.dims)),
                                      Len(ret.val[1][2].data))

\* what the code does: parse_scalar ends behind the sub-record, read_data
\* ends where it started, so every element of an array of tag 0 is read
\* from the same sub-record
C14_NestedScalarAdvances ==
    /\ (call.fn = "parse_scalar" /\ call.tag = 0 /\ ret.kind = "Ok") =>
           ret.pos = BehindSubRecords(call.buf, Len(NameScal) + 2, 1)
    /\ (call.fn = "read_data" /\ call.data_type = DMAP /\ ret.kind = "Ok") =>
           ret.pos = call.position
    /\ (call.fn = "parse_array" /\ call.tag = 0 /\ ret.kind = "Ok") =>
           ret.pos = Len(array_head(0, call.dims))

\* a scalar of tag 0 is decoded and the cursor is behind its sub-record
C14_NestedScalarSeen ==
    /\ call.fn = "parse_scalar" /\ call.tag = 0 /\ ret.kind = "Ok"
    /\ ret.pos = Len(NameScal) + 2 + 32

\* an array of two elements of tag 0 is decoded and the cursor is in front
\* of the first sub-record
C14_NestedArraySeen ==
    /\ call.fn = "parse_array" /\ call.tag = 0 /\ ret.kind = "Ok"
    /\ Len(ret.val[1][2].data) = 2
    /\ ret.pos = Len(array_head(0, call.dims))

\* two sequences agree on their common prefix
PrefixAgree(x, y, Same(_, _)) ==
    \A i \in 1..Len(x) : i <= Len(y) => Same(x[i], y[i])

SameInt(x, y) == x = y

\* the entries two records hold under one name agree: both hold none, or
\* both hold one and the two are equal
SameScalarOf(a, b, name) ==
    IF name \in DOMAIN a.scalars /\ name \in DOMAIN b.scalars
    THEN DmapTypeEq(a.scalars[name].data, b.scalars[name].data)
    ELSE name \notin DOMAIN a.scalars /\ name \notin DOMAIN b.scalars

ArraysAgree(x, y) ==
    /\ PrefixAgree(x.dimensions, y.dimensions, SameInt)
    /\ PrefixAgree(x.data, y.data, DmapTypeEq)

SameArrayOf(a, b, name) ==
    IF name \in DOMAIN a.arrays /\ name \in DOMAIN b.arrays
    THEN ArraysAgree(a.arrays[name], b.arrays[name])
    ELSE name \notin DOMAIN a.arrays /\ name \notin DOMAIN b.arrays

\* the name lists and the named entries of two records agree on the common
\* prefix
RecordsAgree(a, b) ==
    /\ \A i \in 1..Len(a.scalar_list) : i <= Len(b.scalar_list) =>
           /\ a.scalar_list[i] = b.scalar_list[i]
           /\ SameScalarOf(a, b, a.scalar_list[i])
    /\ \A i \in 1..Len(a.array_list) : i <= Len(b.array_list) =>
           /\ a.array_list[i] = b.array_list[i]
           /\ SameArrayOf(a, b, a.array_list[i])

\* a has the name lists of b and one more scalar behind them, and is a
\* record whose counts are the lengths of its lists
OneMoreScalar(a, b) ==
    /\ Len(a.scalar_list) = Len(b.scalar_list) + 1
    /\ SubSeq(a.scalar_list, 1, Len(b.scalar_list)) = b.scalar_list
    /\ a.array_list = b.array_list
    /\ a.num_scalars = Len(a.scalar_list) /\ b.num_scalars = Len(b.scalar_list)
    /\ a.num_arrays = Len(a.array_list) /\ b.num_arrays = Len(b.array_list)

ZerosFrom(buf, p) == {e \in p..(Len(buf) - 1) : buf[e + 1] = 0}

FirstZero(buf, p) == CHOOSE e \in ZerosFrom(buf, p) : \A x \in ZerosFrom(buf, p) : e <= x

\* what the Text read answers when it is given the bytes from p on: the
\* string in front of the first 0 byte and the cursor behind that byte, the
\* decode error when these bytes are not UTF-8, the unterminated-string
\* error when there is no 0 byte
TextAnswer(buf, p) ==
    IF ZerosFrom(buf, p) = {} THEN Err(Message(MsgUnterminated))
    ELSE IF ~from_utf8_ok(SubSeq(buf, p + 1, FirstZero(buf, p)))
         THEN Err(Message(MsgBadString))
    ELSE Ok(TEXT(SubSeq(buf, p + 1, FirstZero(buf, p))), FirstZero(buf, p) + 1)

\* C17: read_data with the Text shape at any p <= length, p = length
\* included, returns the bytes in front of the first 0x00 at or behind p
\* with the cursor behind that 0x00, or the unterminated-string error when
\* buffer[p..] holds no 0x00; it never reads outside the buffer.
C17_TextRead ==
    (/\ call.fn = "read_data" /\ call.data_type.type = "STRING"
     /\ call.position <= Len(call.buf))
    => ret = TextAnswer(call.buf, call.position)

\* what the code does: the claim holds for every p < length; at p = length
\* the scan indexes the buffer at its length and panics
C17_TextReadInside ==
    (call.fn = "read_data" /\ call.data_type.type = "STRING") =>
        /\ call.position < Len(call.buf) => ret = TextAnswer(call.buf, call.position)
        /\ call.position = Len(call.buf) => ret = Panic(PanicIndex)
        /\ call.position > Len(call.buf) => ret = Err(Message(MsgCursorOut))

\* a string is read from the middle of a buffer
C17_TextSeen ==
    /\ call.fn = "read_data" /\ call.data_type.type = "STRING"
    /\ call.buf = <<65, 0, 66>> /\ call.position = 0
    /\ ret = Ok(TEXT(<<65>>), 2)

=============================================================================
